---------------------------- MODULE Spec2Model ----------------------------
(***************************************************************************)
(* Heartbeat scenario harness (src/test_client.py) and baseline heartbeat   *)
(* writer (src/client.py).                                                  *)
(*                                                                         *)
(* One process, one thread of control.  The state is the interpreter's     *)
(* position in main / write_heartbeat (pc, ret), the module global         *)
(* HEARTBEAT_FILE, sys.argv, the locals scenario / duration / start_time /  *)
(* i, the open file object of write_heartbeat (f_open, f_buf), the file    *)
(* system as an outside reader sees it (fs), the wall clock (now) and the  *)
(* SIGTERM disposition of the process.  Command-line words and file        *)
(* contents are sequences of one-character strings, so that str.isdigit,   *)
(* int() and str() are computed character by character.                    *)
(***************************************************************************)
EXTENDS Integers, Sequences, FiniteSets, TLC

(***************************************************************************)
(* Bounds of the model.                                                    *)
(***************************************************************************)
\* The clock stops advancing at Epoch + MaxTime (hang and sigterm_test never end).
MaxTime == 40
\* time.time() at process start, in whole seconds.
Epoch == 100
\* Age, at process start, of a heartbeat file left by an earlier run.
StaleAge == 10

(***************************************************************************)
(* Program constants.                                                      *)
(***************************************************************************)
DefaultDuration == 30
JitterMin == 3
JitterMax == 7
HangBeats == 2
HeartbeatInterval == 5
SpinInterval == 1
SIGTERM == 15

(***************************************************************************)
(* Words: command-line arguments, paths and file contents.                 *)
(***************************************************************************)
Digits == <<"0", "1", "2", "3", "4", "5", "6", "7", "8", "9">>

DigitVal(c) == (CHOOSE k \in 1..10 : Digits[k] = c) - 1

IsDigitChar(c) == \E k \in 1..10 : Digits[k] = c

\* str.isdigit(): at least one character and every character a decimal digit.
isdigit(s) == Len(s) > 0 /\ \A k \in 1..Len(s) : IsDigitChar(s[k])

\* int(s) for a word that satisfies isdigit.
RECURSIVE int(_)
int(s) == IF Len(s) = 0 THEN 0
          ELSE 10 * int(SubSeq(s, 1, Len(s) - 1)) + DigitVal(s[Len(s)])

\* str(n) for n >= 0: the decimal digits of n (whole seconds of time.time()).
RECURSIVE str(_)
str(n) == IF n < 10 THEN <<Digits[n + 1]>>
          ELSE Append(str(n \div 10), Digits[(n % 10) + 1])

W_normal == <<"n", "o", "r", "m", "a", "l">>
W_crash_periodic == <<"c", "r", "a", "s", "h", "_", "p", "e", "r", "i", "o", "d", "i", "c">>
W_hang == <<"h", "a", "n", "g">>
W_sigterm_test == <<"s", "i", "g", "t", "e", "r", "m", "_", "t", "e", "s", "t">>
W_long_request == <<"l", "o", "n", "g", "_", "r", "e", "q", "u", "e", "s", "t">>
W_bogus == <<"b", "o", "g", "u", "s">>
W_prog == <<"t", "e", "s", "t", "_", "c", "l", "i", "e", "n", "t", ".", "p", "y">>
W_flag == <<"-", "-", "h", "e", "a", "r", "t", "b", "e", "a", "t", "-", "f", "i", "l", "e">>
W_hb == <<"h", "b", ".", "t", "x", "t">>
W_alt == <<"a", "l", "t", ".", "t", "x", "t">>
W_digits_path == <<"7", "7">>
W_client == <<"c", "l", "i", "e", "n", "t", ".", "p", "y">>

\* HEARTBEAT_FILE = "heartbeat.txt"
DefaultHeartbeatFile == <<"h", "e", "a", "r", "t", "b", "e", "a", "t", ".", "t", "x", "t">>

RecognizedScenarios == {W_normal, W_crash_periodic, W_hang, W_sigterm_test, W_long_request}

ScenarioWords == RecognizedScenarios \cup {W_bogus}

DurationWords == {<<"0">>, <<"4">>}

\* The command lines the harness is started with (sys.argv, program name first):
\* the documented forms [scenario] [duration] [heartbeat_file] and
\* [scenario] [duration] --heartbeat-file <path>.
CommandLines ==
    {<<W_prog>>}
    \cup {<<W_prog, s>> : s \in ScenarioWords}
    \cup {<<W_prog, s, d>> : s \in ScenarioWords, d \in DurationWords}
    \cup {<<W_prog, s, W_hb>> : s \in ScenarioWords}
    \cup {<<W_prog, s, d, W_hb>> : s \in ScenarioWords, d \in DurationWords}
    \cup {<<W_prog, s, d, W_flag, p>> :
            s \in ScenarioWords, d \in DurationWords, p \in {W_hb, W_digits_path}}
    \cup {<<W_prog, s, d, W_alt, W_flag, W_hb>> :
            s \in {W_normal, W_long_request}, d \in DurationWords}

\* The command lines the baseline writer is started with: [heartbeat_file].
ClientCommandLines ==
    {<<W_client>>} \cup {<<W_client, p>> : p \in {W_hb, W_alt, W_digits_path}}

\* The names bound at module level in client.py when main runs.
ClientGlobals == {"time", "logging", "sys", "os", "HEARTBEAT_FILE", "main"}

\* The name client.py's main passes to open().
ClientOpenName == "HEARTBEBEAT_FILE"

\* Every word that can end up as the heartbeat path.
Paths == {DefaultHeartbeatFile, W_hb, W_alt, W_digits_path, W_flag}
         \cup ScenarioWords \cup DurationWords

\* A file as a reader sees it: present or not, and its bytes.
NoFile == [exists |-> FALSE, content |-> <<>>]

FileWith(c) == [exists |-> TRUE, content |-> c]


(***************************************************************************)
(* State.                                                                  *)
(***************************************************************************)
VARIABLES
    program,         \* which script runs: "test_client" or "client"; never changes
    argv,            \* sys.argv (program name first); popped by the path parsing
    argv0,           \* the command line as typed; never changes
    HEARTBEAT_FILE,  \* module global
    scenario,        \* local of main; <<>> until assigned
    duration,        \* local of main; -1 until assigned
    start_time,      \* local of main; -1 until assigned
    i,               \* loop index of the hang scenario
    pc,              \* position of the interpreter
    ret,             \* where write_heartbeat / time.sleep returns to
    wake,            \* the time at which the current time.sleep ends
    f_open,          \* write_heartbeat holds an open file object
    f_buf,           \* characters written to the file object and not yet flushed
    fs,              \* path -> file, as a reader outside the process sees it
    fs0,             \* the file system when the process started; never changes
    writable,        \* open(HEARTBEAT_FILE, "w") succeeds; never changes
    now,             \* wall clock, whole seconds
    handler,         \* signal_handler is installed for SIGTERM
    sigPending,      \* a SIGTERM was received and its handler has not run yet
    sigTime,         \* when the SIGTERM was received; -1 if none
    sigWrites,       \* the value of writes when it was received; -1 if none
    exitCode,        \* exit status once pc = "exited" (-15: killed by SIGTERM)
    exitCause,       \* which exit was taken
    exitTime,        \* when the process ended; -1 while it runs
    lastLog,         \* the last message handed to logging
    writes,          \* heartbeat writes that reached the file
    lastWrite,       \* time of the last one; -1 if none
    checks           \* crash checks evaluated by crash_periodic

cfgVars == <<argv, HEARTBEAT_FILE, scenario, duration, start_time, i>>

fileVars == <<fs, f_open, f_buf>>

sigVars == <<handler, sigPending, sigTime, sigWrites>>

exitVars == <<exitCode, exitCause, exitTime>>

envVars == <<program, argv0, fs0, writable>>

countVars == <<writes, lastWrite, checks>>

vars == <<program, argv, argv0, HEARTBEAT_FILE, scenario, duration, start_time, i, pc, ret,
          wake, f_open, f_buf, fs, fs0, writable, now, handler, sigPending, sigTime,
          sigWrites, exitCode, exitCause, exitTime, lastLog, writes, lastWrite, checks>>

\* The heartbeat files an earlier run may have left behind.
InitialFileSystems ==
    {[p \in Paths |-> NoFile], [p \in Paths |-> FileWith(str(Epoch - StaleAge))]}

Init ==
    /\ program \in {"test_client", "client"}
    /\ argv0 \in (IF program = "client" THEN ClientCommandLines ELSE CommandLines)
    /\ argv = argv0
    /\ HEARTBEAT_FILE = DefaultHeartbeatFile
    /\ scenario = <<>>
    /\ duration = -1
    /\ start_time = -1
    /\ i = 0
    /\ pc = (IF program = "client" THEN "client_main" ELSE "parse")
    /\ ret = "none"
    /\ wake = 0
    /\ f_open = FALSE
    /\ f_buf = <<>>
    /\ fs0 \in InitialFileSystems
    /\ fs = fs0
    /\ writable \in BOOLEAN
    /\ now = Epoch
    /\ handler = FALSE
    /\ sigPending = FALSE
    /\ sigTime = -1
    /\ sigWrites = -1
    /\ exitCode = -1
    /\ exitCause = "none"
    /\ exitTime = -1
    /\ lastLog = "none"
    /\ writes = 0
    /\ lastWrite = -1
    /\ checks = 0

Running == pc # "exited"

\* The main thread executes its next step: it has not ended, and no received
\* signal is waiting for its handler (the handler runs before the next step).
Step(at) == pc = at /\ ~sigPending

\* sys.exit(code), or the interpreter ending on an uncaught exception.
Exit(code, cause) ==
    /\ pc' = "exited"
    /\ exitCode' = code
    /\ exitCause' = cause
    /\ exitTime' = now

(***************************************************************************)
(* main: start-up.                                                         *)
(***************************************************************************)
\* The custom heartbeat path is the last argument unless it is a number.
ParseArgs ==
    /\ Step("parse")
    /\ IF Len(argv) > 1 /\ ~isdigit(argv[Len(argv)])
         THEN /\ HEARTBEAT_FILE' = argv[Len(argv)]
              /\ argv' = SubSeq(argv, 1, Len(argv) - 1)
              /\ lastLog' = "Using custom heartbeat file"
         ELSE /\ UNCHANGED <<HEARTBEAT_FILE, argv>>
              /\ lastLog' = "Using default heartbeat file"
    /\ pc' = "cleanup"
    /\ UNCHANGED <<scenario, duration, start_time, i, ret, wake, now>>
    /\ UNCHANGED <<fileVars, sigVars, exitVars, envVars, countVars>>

\* An old heartbeat file is removed; a failing os.remove is logged and ignored.
CleanupOld ==
    /\ Step("cleanup")
    /\ IF fs[HEARTBEAT_FILE].exists
         THEN \E removed \in BOOLEAN :
                IF removed
                  THEN /\ fs' = [fs EXCEPT ![HEARTBEAT_FILE] = NoFile]
                       /\ lastLog' = "Cleaned up old heartbeat file"
                  ELSE /\ fs' = fs
                       /\ lastLog' = "Error removing old heartbeat file"
         ELSE UNCHANGED <<fs, lastLog>>
    /\ pc' = "install"
    /\ UNCHANGED <<cfgVars, ret, wake, now, f_open, f_buf>>
    /\ UNCHANGED <<sigVars, exitVars, envVars, countVars>>

\* signal.signal(signal.SIGTERM, signal_handler)
InstallHandler ==
    /\ Step("install")
    /\ handler' = TRUE
    /\ pc' = "config"
    /\ UNCHANGED <<cfgVars, ret, wake, now, lastLog, sigPending, sigTime, sigWrites>>
    /\ UNCHANGED <<fileVars, exitVars, envVars, countVars>>

\* scenario and duration are read from what is left of sys.argv.
ReadConfig ==
    /\ Step("config")
    /\ scenario' = IF Len(argv) > 1 THEN argv[2] ELSE W_normal
    /\ duration' = IF Len(argv) > 2 /\ isdigit(argv[3]) THEN int(argv[3])
                   ELSE DefaultDuration
    /\ pc' = "dispatch"
    /\ UNCHANGED <<argv, HEARTBEAT_FILE, start_time, i, ret, wake, now, lastLog>>
    /\ UNCHANGED <<fileVars, sigVars, exitVars, envVars, countVars>>

\* The if / elif chain on scenario, with the first log line of the branch taken.
Dispatch ==
    /\ Step("dispatch")
    /\ IF scenario = W_normal
         THEN pc' = "n_test" /\ start_time' = now /\ lastLog' = "Normal operation"
       ELSE IF scenario = W_crash_periodic
         THEN pc' = "c_test" /\ start_time' = now
              /\ lastLog' = "Simulating periodic crashes"
       ELSE IF scenario = W_hang
         THEN pc' = "h_loop" /\ start_time' = start_time
              /\ lastLog' = "Simulating a hang"
       ELSE IF scenario = W_sigterm_test
         THEN pc' = "s_loop" /\ start_time' = start_time
              /\ lastLog' = "Waiting for SIGTERM"
       ELSE IF scenario = W_long_request
         THEN pc' = "l_first" /\ start_time' = start_time
              /\ lastLog' = "Simulating a long request"
       ELSE pc' = "unknown" /\ UNCHANGED <<start_time, lastLog>>
    /\ i' = 0
    /\ UNCHANGED <<argv, HEARTBEAT_FILE, scenario, duration, ret, wake, now>>
    /\ UNCHANGED <<fileVars, sigVars, exitVars, envVars, countVars>>

(***************************************************************************)
(* write_heartbeat and time.sleep.                                         *)
(***************************************************************************)
\* A call of write_heartbeat() that returns to position `next`.
CallWriteHeartbeat(next) == pc' = "wh_open" /\ ret' = next /\ wake' = wake

\* A call of time.sleep(d) that returns to position `next`.
CallSleep(d, next) == pc' = "sleep" /\ ret' = next /\ wake' = now + d

\* What a file holds once the buffered characters are flushed to it.
Flushed(file, buf) == FileWith(file.content \o buf)

\* WH_Open with the I/O error caught, logged and ignored, as a best-effort
\* writer would do.
WH_Open_ErrorCaught ==
    /\ Step("wh_open")
    /\ IF writable
         THEN /\ fs' = [fs EXCEPT ![HEARTBEAT_FILE] = FileWith(<<>>)]
              /\ f_open' = TRUE
              /\ f_buf' = <<>>
              /\ pc' = "wh_write"
              /\ UNCHANGED lastLog
         ELSE /\ pc' = ret
              /\ lastLog' = "Error writing to heartbeat file"
              /\ UNCHANGED fileVars
    /\ UNCHANGED <<cfgVars, ret, wake, now>>
    /\ UNCHANGED <<sigVars, exitVars, envVars, countVars>>

\* open(HEARTBEAT_FILE, "w"): the file is created or truncated at once; on an
\* unwritable path the IOError is caught nowhere and ends the process.
WH_Open ==
    /\ Step("wh_open")
    /\ IF writable
         THEN /\ fs' = [fs EXCEPT ![HEARTBEAT_FILE] = FileWith(<<>>)]
              /\ f_open' = TRUE
              /\ f_buf' = <<>>
              /\ pc' = "wh_write"
              /\ UNCHANGED exitVars
         ELSE /\ Exit(1, "ioerror")
              /\ UNCHANGED fileVars
    /\ UNCHANGED <<cfgVars, ret, wake, now, lastLog>>
    /\ UNCHANGED <<sigVars, envVars, countVars>>

\* f.write(str(time.time())): the characters go to the file object's buffer.
WH_Write ==
    /\ Step("wh_write")
    /\ f_buf' = f_buf \o str(now)
    /\ pc' = "wh_close"
    /\ UNCHANGED <<cfgVars, ret, wake, now, lastLog, fs, f_open>>
    /\ UNCHANGED <<sigVars, exitVars, envVars, countVars>>

\* WH_Close with the bug of a file object that is dropped without being flushed.
WH_Close_NoFlush ==
    /\ Step("wh_close")
    /\ f_open' = FALSE
    /\ f_buf' = <<>>
    /\ writes' = writes + 1
    /\ lastWrite' = now
    /\ lastLog' = "Heartbeat sent"
    /\ pc' = ret
    /\ UNCHANGED <<cfgVars, ret, wake, now, checks, fs>>
    /\ UNCHANGED <<sigVars, exitVars, envVars>>

\* Leaving the with block closes the file, which flushes the buffer; then
\* "Heartbeat sent" is logged and write_heartbeat returns.
WH_Close ==
    /\ Step("wh_close")
    /\ fs' = [fs EXCEPT ![HEARTBEAT_FILE] = Flushed(@, f_buf)]
    /\ f_open' = FALSE
    /\ f_buf' = <<>>
    /\ writes' = writes + 1
    /\ lastWrite' = now
    /\ lastLog' = "Heartbeat sent"
    /\ pc' = ret
    /\ UNCHANGED <<cfgVars, ret, wake, now, checks>>
    /\ UNCHANGED <<sigVars, exitVars, envVars>>

\* One second of a time.sleep passes.  A received signal interrupts the sleep.
SleepTick ==
    /\ Step("sleep")
    /\ now < wake
    /\ now < Epoch + MaxTime
    /\ now' = now + 1
    /\ UNCHANGED <<cfgVars, pc, ret, wake, lastLog>>
    /\ UNCHANGED <<fileVars, sigVars, exitVars, envVars, countVars>>

\* time.sleep returns.
SleepWake ==
    /\ Step("sleep")
    /\ now >= wake
    /\ pc' = ret
    /\ UNCHANGED <<cfgVars, ret, wake, now, lastLog>>
    /\ UNCHANGED <<fileVars, sigVars, exitVars, envVars, countVars>>

(***************************************************************************)
(* SIGTERM.                                                                *)
(***************************************************************************)
\* The environment sends SIGTERM to the running process (once).  Without an
\* installed handler the default disposition ends the process at once.
Sigterm ==
    /\ Running
    /\ sigTime = -1
    /\ sigTime' = now
    /\ sigWrites' = writes
    /\ IF handler
         THEN /\ sigPending' = TRUE
              /\ UNCHANGED <<pc, exitVars>>
         ELSE /\ sigPending' = FALSE
              /\ Exit(-SIGTERM, "killed")
    /\ UNCHANGED <<cfgVars, ret, wake, now, lastLog, handler>>
    /\ UNCHANGED <<fileVars, envVars, countVars>>

\* signal_handler with a cleanup the code leaves to the supervisor: the
\* heartbeat file is removed before the exit.
signal_handler_RemovesFile ==
    /\ Running
    /\ sigPending
    /\ sigPending' = FALSE
    /\ lastLog' = "Received signal. Exiting gracefully."
    /\ fs' = [fs EXCEPT ![HEARTBEAT_FILE] = NoFile]
    /\ f_open' = FALSE
    /\ f_buf' = <<>>
    /\ Exit(0, "signal")
    /\ UNCHANGED <<cfgVars, ret, wake, now, handler, sigTime, sigWrites, envVars>>
    /\ UNCHANGED countVars

\* signal_handler with the bug of a handler that logs and returns.
signal_handler_Returns ==
    /\ Running
    /\ sigPending
    /\ sigPending' = FALSE
    /\ lastLog' = "Received signal. Exiting gracefully."
    /\ UNCHANGED <<cfgVars, pc, ret, wake, now, handler, sigTime, sigWrites>>
    /\ UNCHANGED <<fileVars, exitVars, envVars, countVars>>

\* signal_handler: logs, then sys.exit(0) raises SystemExit in the main thread.
\* Unwinding through the with block of write_heartbeat closes an open file,
\* flushing what was written to it.
signal_handler ==
    /\ Running
    /\ sigPending
    /\ sigPending' = FALSE
    /\ lastLog' = "Received signal. Exiting gracefully."
    /\ IF f_open
         THEN /\ fs' = [fs EXCEPT ![HEARTBEAT_FILE] = Flushed(@, f_buf)]
              /\ f_open' = FALSE
              /\ f_buf' = <<>>
              /\ IF f_buf # <<>>
                   THEN /\ writes' = writes + 1
                                            /\ lastWrite' = now
                        /\ UNCHANGED checks
                   ELSE UNCHANGED countVars
         ELSE UNCHANGED <<fileVars, countVars>>
    /\ Exit(0, "signal")
    /\ UNCHANGED <<cfgVars, ret, wake, now, handler, sigTime, sigWrites, envVars>>

(***************************************************************************)
(* main: the scenarios.                                                    *)
(***************************************************************************)
Frame == /\ UNCHANGED <<cfgVars, now, lastLog>>
         /\ UNCHANGED <<fileVars, sigVars, exitVars, envVars, countVars>>

\* NormalLoop with the bug of an inclusive loop test.
NormalLoop_Inclusive ==
    /\ Step("n_test")
    /\ now - start_time <= duration
    /\ CallWriteHeartbeat("n_sleep")
    /\ Frame

\* normal: while time.time() - start_time < duration: write_heartbeat()
NormalLoop ==
    /\ Step("n_test")
    /\ now - start_time < duration
    /\ CallWriteHeartbeat("n_sleep")
    /\ Frame

\* NormalSleep with the bug of a jitter range that is too wide.
NormalSleep_Wide ==
    /\ Step("n_sleep")
    /\ \E d \in JitterMin..(JitterMax + JitterMin) : CallSleep(d, "n_test")
    /\ Frame

\* normal: time.sleep(random.uniform(3, 7))
NormalSleep ==
    /\ Step("n_sleep")
    /\ \E d \in JitterMin..JitterMax : CallSleep(d, "n_test")
    /\ Frame

\* normal: the loop ends; "Exiting normally." and sys.exit(0)
NormalExit ==
    /\ Step("n_test")
    /\ ~(now - start_time < duration)
    /\ lastLog' = "Exiting normally."
    /\ Exit(0, "scenario")
    /\ UNCHANGED <<cfgVars, ret, wake, now>>
    /\ UNCHANGED <<fileVars, sigVars, envVars, countVars>>

\* crash_periodic: while time.time() - start_time < duration: write_heartbeat()
CrashLoop ==
    /\ Step("c_test")
    /\ now - start_time < duration
    /\ CallWriteHeartbeat("c_sleep")
    /\ Frame

\* CrashSleep with the bug of a cycle that goes back to the loop test without
\* its crash check.
CrashSleep_SkipCheck ==
    /\ Step("c_sleep")
    /\ \E d \in JitterMin..JitterMax : CallSleep(d, "c_test")
    /\ Frame

\* CrashSleep with the bug of a cycle that does not sleep.
CrashSleep_None ==
    /\ Step("c_sleep")
    /\ CallSleep(0, "c_check")
    /\ Frame

\* crash_periodic: time.sleep(random.uniform(3, 7))
CrashSleep ==
    /\ Step("c_sleep")
    /\ \E d \in JitterMin..JitterMax : CallSleep(d, "c_check")
    /\ Frame

\* crash_periodic: if random.random() < 0.2: log the crash and sys.exit(1)
CrashCheck ==
    /\ Step("c_check")
    /\ checks' = checks + 1
    /\ \E crash \in BOOLEAN :
         IF crash
           THEN /\ lastLog' = "Simulating a random crash!"
                /\ Exit(1, "crash")
           ELSE /\ pc' = "c_test"
                /\ UNCHANGED <<lastLog, exitVars>>
    /\ UNCHANGED <<cfgVars, ret, wake, now, writes, lastWrite>>
    /\ UNCHANGED <<fileVars, sigVars, envVars>>

\* crash_periodic: the loop ends; log and sys.exit(0)
CrashExit ==
    /\ Step("c_test")
    /\ ~(now - start_time < duration)
    /\ lastLog' = "Exiting normally after periodic crashes."
    /\ Exit(0, "scenario")
    /\ UNCHANGED <<cfgVars, ret, wake, now>>
    /\ UNCHANGED <<fileVars, sigVars, envVars, countVars>>

\* HangLoop with the bug of a loop bound that is off by one.
HangLoop_OffByOne ==
    /\ Step("h_loop")
    /\ i <= HangBeats
    /\ CallWriteHeartbeat("h_sleep")
    /\ Frame

\* hang: for i in range(2): write_heartbeat()
HangLoop ==
    /\ Step("h_loop")
    /\ i < HangBeats
    /\ CallWriteHeartbeat("h_sleep")
    /\ Frame

\* hang: time.sleep(5), next i
HangSleep ==
    /\ Step("h_sleep")
    /\ CallSleep(HeartbeatInterval, "h_loop")
    /\ i' = i + 1
    /\ UNCHANGED <<argv, HEARTBEAT_FILE, scenario, duration, start_time, now, lastLog>>
    /\ UNCHANGED <<fileVars, sigVars, exitVars, envVars, countVars>>

\* hang: the for loop is over; warn and enter while True
HangStop ==
    /\ Step("h_loop")
    /\ ~(i < HangBeats)
    /\ lastLog' = "Stopping heartbeat and entering infinite loop."
    /\ pc' = "h_spin"
    /\ UNCHANGED <<cfgVars, ret, wake, now>>
    /\ UNCHANGED <<fileVars, sigVars, exitVars, envVars, countVars>>

\* hang: while True: time.sleep(1)
HangSpin ==
    /\ Step("h_spin")
    /\ CallSleep(SpinInterval, "h_spin")
    /\ Frame

\* sigterm_test: while True: write_heartbeat()
SigtermLoop ==
    /\ Step("s_loop")
    /\ CallWriteHeartbeat("s_sleep")
    /\ Frame

\* SigtermSleep with the bug of a pause of two intervals.
SigtermSleep_Long ==
    /\ Step("s_sleep")
    /\ CallSleep(2 * HeartbeatInterval, "s_loop")
    /\ Frame

\* sigterm_test: time.sleep(5)
SigtermSleep ==
    /\ Step("s_sleep")
    /\ CallSleep(HeartbeatInterval, "s_loop")
    /\ Frame

\* long_request: the first write_heartbeat()
LongFirst ==
    /\ Step("l_first")
    /\ CallWriteHeartbeat("l_sleep")
    /\ Frame

\* LongSleep with the bug of sleeping one heartbeat interval, not the duration.
LongSleep_Interval ==
    /\ Step("l_sleep")
    /\ lastLog' = "Starting long operation"
    /\ CallSleep(HeartbeatInterval, "l_second")
    /\ UNCHANGED <<cfgVars, now>>
    /\ UNCHANGED <<fileVars, sigVars, exitVars, envVars, countVars>>

\* long_request: log, then time.sleep(duration)
LongSleep ==
    /\ Step("l_sleep")
    /\ lastLog' = "Starting long operation"
    /\ CallSleep(duration, "l_second")
    /\ UNCHANGED <<cfgVars, now>>
    /\ UNCHANGED <<fileVars, sigVars, exitVars, envVars, countVars>>

\* long_request: the second write_heartbeat()
LongSecond ==
    /\ Step("l_second")
    /\ CallWriteHeartbeat("l_exit")
    /\ Frame

\* long_request: log and sys.exit(0)
LongExit ==
    /\ Step("l_exit")
    /\ lastLog' = "Long operation finished, heartbeat sent. Exiting."
    /\ Exit(0, "scenario")
    /\ UNCHANGED <<cfgVars, ret, wake, now>>
    /\ UNCHANGED <<fileVars, sigVars, envVars, countVars>>

\* else: "Unknown scenario" is logged and sys.exit(1)
UnknownScenario ==
    /\ Step("unknown")
    /\ lastLog' = "Unknown scenario"
    /\ Exit(1, "unknown")
    /\ UNCHANGED <<cfgVars, ret, wake, now>>
    /\ UNCHANGED <<fileVars, sigVars, envVars, countVars>>

(***************************************************************************)
(* client.py: the baseline writer.                                         *)
(***************************************************************************)
\* main: the heartbeat path is the first argument, if there is one.
ClientMain ==
    /\ Step("client_main")
    /\ IF Len(argv) > 1
         THEN /\ HEARTBEAT_FILE' = argv[2]
              /\ lastLog' = "Using heartbeat file"
         ELSE /\ HEARTBEAT_FILE' = HEARTBEAT_FILE
              /\ lastLog' = "Using default heartbeat file"
    /\ pc' = "client_loop"
    /\ UNCHANGED <<argv, scenario, duration, start_time, i, ret, wake, now>>
    /\ UNCHANGED <<fileVars, sigVars, exitVars, envVars, countVars>>

\* One pass of while True: the try block opens the file named by
\* ClientOpenName and writes the time; a name that is not bound raises
\* NameError, which `except IOError` does not catch and which ends the process;
\* an IOError of open is logged; then time.sleep(5).
ClientBeat ==
    /\ Step("client_loop")
    /\ IF ClientOpenName \in ClientGlobals
         THEN /\ IF writable
                   THEN /\ fs' = [fs EXCEPT ![HEARTBEAT_FILE] = FileWith(str(now))]
                        /\ writes' = writes + 1
                        /\ lastWrite' = now
                        /\ lastLog' = "Heartbeat sent"
                   ELSE /\ UNCHANGED <<fs, writes, lastWrite>>
                        /\ lastLog' = "Error writing to heartbeat file"
              /\ CallSleep(HeartbeatInterval, "client_loop")
              /\ UNCHANGED exitVars
         ELSE /\ Exit(1, "nameerror")
              /\ UNCHANGED <<fs, writes, lastWrite, lastLog, ret, wake>>
    /\ UNCHANGED <<cfgVars, now, f_open, f_buf, checks>>
    /\ UNCHANGED <<sigVars, envVars>>

(***************************************************************************)
(* Specifications.                                                         *)
(***************************************************************************)
\* The steps of the program itself.
Program ==
    \/ ParseArgs \/ CleanupOld \/ InstallHandler \/ ReadConfig \/ Dispatch
    \/ WH_Open \/ WH_Write \/ WH_Close \/ SleepWake \/ signal_handler
    \/ NormalLoop \/ NormalSleep \/ NormalExit
    \/ CrashLoop \/ CrashSleep \/ CrashCheck \/ CrashExit
    \/ HangLoop \/ HangSleep \/ HangStop \/ HangSpin
    \/ SigtermLoop \/ SigtermSleep
    \/ LongFirst \/ LongSleep \/ LongSecond \/ LongExit
    \/ UnknownScenario
    \/ ClientMain \/ ClientBeat

Next == Program \/ SleepTick \/ Sigterm

Spec == Init /\ [][Next]_vars

\* The interpreter keeps executing and the clock keeps running; whether a
\* SIGTERM is ever sent is up to the environment.
FairSpec == Spec /\ WF_vars(Program) /\ WF_vars(SleepTick)

(***************************************************************************)
(* Properties.                                                             *)
(***************************************************************************)
Exited == pc = "exited"

\* The scenario harness runs (test_client.py), not the baseline writer.
Harness == program = "test_client"

NoSignal == sigTime = -1

SignalLog == "Received signal. Exiting gracefully."

\* A reader of the heartbeat file can parse the content as one decimal number.
Parseable(c) == isdigit(c)

\* The first positional argument of the command line as typed, if any.
HasScenarioArg == Len(argv0) > 1

TypedScenario == argv0[2]

\* main has assigned scenario (line 53 has run).
ScenarioRead == scenario # <<>>

\* C1: when the first positional argument is not a recognized scenario name
\* (and no SIGTERM is sent), the run does nothing to any heartbeat file, performs
\* no heartbeat write, and its exit is with code 1.
C1_UnknownScenarioIsFatal ==
    (Harness /\ HasScenarioArg /\ TypedScenario \notin RecognizedScenarios /\ NoSignal)
        => /\ writes = 0
           /\ ~f_open
           /\ fs = fs0
           /\ (Exited => exitCode = 1)

\* C2: the scenario main runs is the first positional argument as typed, and
\* normal when there is none.
C2_ScenarioIsFirstArgument ==
    ScenarioRead => scenario = (IF HasScenarioArg THEN TypedScenario ELSE W_normal)

\* C3: a SIGTERM received while the process runs is answered by the handler:
\* from its receipt on, the handler is about to run, or has run and the process
\* has ended with code 0 after logging the signal.
C3_SigtermExitsGracefully ==
    (Harness /\ ~NoSignal) => \/ (Running /\ sigPending)
                 \/ (Exited /\ exitCode = 0 /\ lastLog = SignalLog)

\* C5: once a SIGTERM has been received, no step of the process changes any
\* heartbeat file.
C5_NoFileChangeAfterSignal == [][~NoSignal => fs' = fs]_vars

\* C6: a heartbeat file written by this run is, whenever it exists, one decimal
\* number in full.
C6_FileNeverMalformed ==
    \A p \in Paths : (fs[p].exists /\ fs[p] # fs0[p]) => Parseable(fs[p].content)

\* Seconds since the process started.
Uptime == now - Epoch

\* This step puts a heartbeat into the file, and it is not the first one.
LaterBeat == writes' = writes + 1 /\ writes >= 1

\* C4: in sigterm_test, a SIGTERM received after the first heartbeat write ends
\* the process with code 0 at most one heartbeat interval later: until then no
\* more than the interval has passed, and the exit always comes.
C4_SigtermTestExitsWithinInterval ==
    /\ [](scenario = W_sigterm_test /\ sigWrites >= 1
            => /\ Running => now - sigTime <= HeartbeatInterval
               /\ Exited => /\ exitCode = 0
                            /\ exitCause = "signal"
                            /\ exitTime - sigTime <= HeartbeatInterval)
    /\ ((scenario = W_sigterm_test /\ sigWrites >= 1) ~> Exited)

\* The signal of C4 arrived during a heartbeat write, after f.write.
C4_Witness ==
    /\ scenario = W_sigterm_test
    /\ Exited
    /\ exitCause = "signal"
    /\ sigWrites >= 1
    /\ writes = sigWrites + 1

\* What C7 says of a state of the hang scenario, but for who ends the process:
\* at most 2 heartbeats, all in the first 11 seconds, and 2 of them once an
\* undisturbed run is past its 5th second.
HangBeatsAsSpecified ==
    /\ writes <= 2
    /\ writes >= 1 => lastWrite - Epoch <= 11
    /\ (Running /\ NoSignal /\ Uptime > 5) => writes = 2

\* C7 as stated: in the hang scenario there are 2 heartbeat writes within the
\* first 11 seconds and none after, and the process runs until it is terminated
\* from outside (here: until a SIGTERM is received).
C7_HangNeverExitsOnItsOwn ==
    scenario = W_hang => (HangBeatsAsSpecified /\ (NoSignal => Running))

\* C7 as amended: the same, the 2 writes 5 seconds apart, provided the heartbeat
\* path is writable; on an unwritable path the only exit besides the signal's
\* is the failed write's.
C7_HangWithWritablePath ==
    /\ [](scenario = W_hang
            => /\ writes <= 2
               /\ Exited => exitCause \in {"signal", "ioerror"}
               /\ writable => (HangBeatsAsSpecified /\ (NoSignal => Running)))
    /\ [][(scenario = W_hang /\ LaterBeat)
            => lastWrite' - lastWrite = HeartbeatInterval]_vars
    /\ ((scenario = W_hang /\ writable) ~> (writes = 2 \/ ~NoSignal))

\* The hang scenario half a minute after its second and last heartbeat.
C7_Witness ==
    /\ scenario = W_hang
    /\ Running
    /\ NoSignal
    /\ writes = 2
    /\ lastWrite - Epoch = HeartbeatInterval
    /\ now - lastWrite >= 30

\* C8: a long_request run that no signal and no failed write interrupts ends
\* with the scenario's own exit 0, after exactly 2 heartbeat writes of which the
\* second is at least `duration` seconds after the first; and the run ends.
C8_LongRequestTwoBeats ==
    /\ [](scenario = W_long_request
            => /\ writes <= 2
               /\ (Exited /\ NoSignal /\ writable) => exitCause = "scenario"
               /\ exitCause = "scenario" => /\ exitCode = 0
                                           /\ writes = 2
                                           /\ exitTime >= lastWrite)
    /\ [][(scenario = W_long_request /\ LaterBeat)
            => lastWrite' - lastWrite >= duration]_vars
    /\ (scenario = W_long_request ~> Exited)

\* A completed long request of the default 30 seconds.
C8_Witness ==
    /\ scenario = W_long_request
    /\ exitCause = "scenario"
    /\ duration = DefaultDuration
    /\ writes = 2
    /\ lastWrite - Epoch = DefaultDuration

\* C9: a normal run with a writable path and no signal ends, with code 0, when
\* at least `duration` and at most `duration` + 7 seconds have elapsed; until
\* then consecutive heartbeats are 3 to 7 seconds apart.
C9_NormalTerminatesWithinJitter ==
    /\ [](scenario = W_normal /\ start_time # -1
            => /\ (Exited /\ NoSignal /\ writable) => exitCause = "scenario"
               /\ exitCause = "scenario"
                    => /\ exitCode = 0
                       /\ exitTime - start_time >= duration
                       /\ exitTime - start_time <= duration + JitterMax
               /\ Running => now - start_time <= duration + JitterMax
               /\ writes = 1 => lastWrite = start_time
               /\ (Running /\ writes >= 1) => now - lastWrite <= JitterMax)
    /\ [][(scenario = W_normal /\ LaterBeat)
            => /\ lastWrite' - lastWrite >= JitterMin
               /\ lastWrite' - lastWrite <= JitterMax]_vars
    /\ ((scenario = W_normal /\ writable)
          ~> (Exited /\ (NoSignal => exitCause = "scenario")))

\* A normal run of the default 30 seconds that ended past its duration.
C9_Witness ==
    /\ scenario = W_normal
    /\ exitCause = "scenario"
    /\ duration = DefaultDuration
    /\ exitTime - start_time > duration
    /\ writes >= 5

\* The file at HEARTBEAT_FILE holds a timestamp at most 7 seconds before the exit.
HeartbeatFreshAtExit ==
    /\ fs[HEARTBEAT_FILE].exists
    /\ Parseable(fs[HEARTBEAT_FILE].content)
    /\ exitTime - int(fs[HEARTBEAT_FILE].content) <= JitterMax
    /\ exitTime - int(fs[HEARTBEAT_FILE].content) >= 0

\* C10 as stated: whenever a normal run (with a writable path, and that received
\* no signal) has exited with code 0, whatever its duration, the heartbeat file
\* exists and is fresh.
C10_NormalExitLeavesFreshFile ==
    (scenario = W_normal /\ Exited /\ exitCode = 0 /\ NoSignal /\ writable)
        => HeartbeatFreshAtExit

\* C10 as amended: the same for a duration of at least 1 second and the
\* scenario's own exit.
C10_NormalExitFreshFilePositiveDuration ==
    (scenario = W_normal /\ exitCause = "scenario" /\ duration >= 1)
        => HeartbeatFreshAtExit

\* A normal run that ended a full 7 seconds after its last heartbeat.
C10_Witness ==
    /\ scenario = W_normal
    /\ exitCause = "scenario"
    /\ duration >= 1
    /\ exitTime - lastWrite = JitterMax

\* C11 as stated: a crash_periodic run that exits with code 1 has completed at
\* least one heartbeat write and its sleep; one that exits with code 0 does so
\* when at least `duration` seconds have elapsed since the scenario started.
C11_CrashPeriodicExitCodes ==
    (scenario = W_crash_periodic /\ start_time # -1 /\ Exited)
        => /\ exitCode = 1 => /\ writes >= 1
                              /\ checks >= 1
                              /\ exitTime - lastWrite >= JitterMin
           /\ exitCode = 0 => exitTime - start_time >= duration

\* C11 as amended: the same of the exits the scenario takes itself, the
\* simulated crash (code 1) and the end of the duration (code 0); the other
\* exits are the signal handler's (code 0) and a failed write's (code 1).
C11_CrashPeriodicOwnExits ==
    (scenario = W_crash_periodic /\ start_time # -1 /\ Exited)
        => /\ exitCause \in {"crash", "scenario", "signal", "ioerror"}
           /\ exitCode = 1 <=> exitCause \in {"crash", "ioerror"}
           /\ exitCode = 0 <=> exitCause \in {"scenario", "signal"}
           /\ exitCause = "crash" => /\ writes >= 1
                                     /\ checks >= 1
                                     /\ exitTime - lastWrite >= JitterMin
           /\ exitCause = "scenario" => exitTime - start_time >= duration

\* A simulated crash at the end of the very first cycle.
C11_Witness ==
    /\ scenario = W_crash_periodic
    /\ exitCause = "crash"
    /\ writes = 1
    /\ checks = 1

\* C12: the baseline writer does not end on its own: as long as no SIGTERM is
\* received it is running, and once it sleeps after a pass over a writable path
\* the heartbeat file holds the time of that pass.
C12_BaselineWriterRunsForever ==
    (program = "client" /\ NoSignal)
        => /\ Running
           /\ (pc = "sleep" /\ writable)
                => /\ writes >= 1
                   /\ fs[HEARTBEAT_FILE] = FileWith(str(lastWrite))

\* The next heartbeat of a 5-second cycle is due after the clock of the model stops.
PastHorizon == lastWrite + HeartbeatInterval > Epoch + MaxTime

\* C13: in sigterm_test the only exit with code 0 is the signal handler's (the
\* only other exit is a failed write's); with a writable path and no signal the
\* process keeps running, never more than 5 seconds after its last heartbeat,
\* consecutive heartbeats are 5 seconds apart, and a heartbeat write has always
\* just returned again later on.
C13_SigtermTestOnlyExitsOnSignal ==
    /\ [](scenario = W_sigterm_test
            => /\ Exited => exitCause \in {"signal", "ioerror"}
               /\ (Exited /\ exitCode = 0) => (exitCause = "signal" /\ ~NoSignal)
               /\ (writable /\ NoSignal)
                    => /\ Running
                       /\ writes >= 1 => now - lastWrite <= HeartbeatInterval)
    /\ [][(scenario = W_sigterm_test /\ LaterBeat)
            => lastWrite' - lastWrite = HeartbeatInterval]_vars
    /\ []<>(\/ ~(scenario = W_sigterm_test /\ writable /\ NoSignal)
            \/ pc = "s_sleep"
            \/ PastHorizon)

\* sigterm_test still beating, for the eighth time, 35 seconds into the run.
C13_Witness ==
    /\ scenario = W_sigterm_test
    /\ NoSignal
    /\ pc = "s_sleep"
    /\ writes = 8
    /\ lastWrite - Epoch = 7 * HeartbeatInterval

\* The command line has the form [scenario] [duration] ... --heartbeat-file <path>.
FlagForm == Harness /\ Len(argv0) >= 3 /\ argv0[Len(argv0) - 1] = W_flag

FlagPath == argv0[Len(argv0)]

\* main is past its choice of the heartbeat path (lines 34-40 log either way).
PathResolved == lastLog # "none"

\* C14: started in the flag-based form, the harness uses the path of the named
\* option, whatever the path is, takes scenario and duration from the first two
\* positional arguments, and writes (or removes) no file at any other path.
C14_NamedOptionPathIsUsed ==
    FlagForm
        => /\ PathResolved => HEARTBEAT_FILE = FlagPath
           /\ ScenarioRead => (scenario = argv0[2] /\ duration = int(argv0[3]))
           /\ \A p \in Paths \ {FlagPath} : fs[p] = fs0[p]

\* The positions main reaches only after a heartbeat write has returned.
AfterABeat ==
    {"wh_write", "wh_close", "sleep", "n_sleep", "c_sleep", "c_check", "h_sleep",
     "h_spin", "s_sleep", "l_sleep", "l_second", "l_exit"}

\* C15: in the harness a failed heartbeat write is not recovered.  On an
\* unwritable path no heartbeat is written, no sleep is started, no crash check
\* is evaluated and no time passes; the step that attempts the open ends the
\* process with status 1; and a run that reaches the open does end.
C15_WriteErrorPropagates ==
    /\ []((Harness /\ ~writable)
            => /\ writes = 0
               /\ checks = 0
               /\ ~f_open
               /\ now = Epoch
               /\ pc \notin AfterABeat
               /\ fs[HEARTBEAT_FILE] \in {NoFile, fs0[HEARTBEAT_FILE]})
    /\ [](exitCause = "ioerror" => (Exited /\ exitCode = 1 /\ ~writable))
    /\ [][(Harness /\ ~writable /\ pc = "wh_open" /\ pc' # pc)
            => (exitCause' = "ioerror" \/ sigPending)]_vars
    /\ ((Harness /\ ~writable /\ pc = "wh_open") ~> Exited)

\* The failed first write of a sigterm_test run has ended the process.
C15_Witness ==
    /\ scenario = W_sigterm_test
    /\ exitCause = "ioerror"
    /\ exitCode = 1
    /\ NoSignal

\* C16 as stated: no step of the process deletes a heartbeat file: a file that
\* exists before a step exists after it.
C16_FileNeverDeleted ==
    [][\A p \in Paths : fs[p].exists => fs'[p].exists]_vars

\* C16 as amended: but for the start-up cleanup, which may remove the file at
\* HEARTBEAT_FILE before any heartbeat is written, no step deletes a file, and a
\* step that changes a file changes the one at HEARTBEAT_FILE, by truncating it
\* or by leaving it with the current time as its content.
C16_FileDeletedOnlyAtStartup ==
    [][/\ pc # "cleanup"
          => \A p \in Paths :
               /\ fs[p].exists => fs'[p].exists
               /\ fs'[p] # fs[p]
                    => /\ p = HEARTBEAT_FILE
                       /\ fs'[p] \in {FileWith(<<>>), FileWith(str(now))}
       /\ pc = "cleanup"
          => /\ writes = 0
             /\ \A p \in Paths : fs'[p] # fs[p] => (p = HEARTBEAT_FILE /\ fs'[p] = NoFile)
      ]_vars

\* A run that found an old heartbeat file at start-up has a heartbeat file of
\* its own after its second write.
C16_Witness ==
    /\ Harness
    /\ fs0[HEARTBEAT_FILE].exists
    /\ writes = 2
    /\ fs[HEARTBEAT_FILE] = FileWith(str(lastWrite))
    /\ lastWrite > Epoch

\* The log lines that announce each way the process ends itself.
ExitLogs ==
    [scenario |-> {"Exiting normally.", "Exiting normally after periodic crashes.",
                   "Long operation finished, heartbeat sent. Exiting."},
     crash |-> {"Simulating a random crash!"},
     unknown |-> {"Unknown scenario"},
     signal |-> {SignalLog},
     ioerror |-> {"Error writing to heartbeat file"},
     nameerror |-> {"Error writing to heartbeat file"}]

\* C17: whenever either program has ended itself (by an exit or by an error),
\* the last message it logged is the one for that exit or error.
C17_EveryExitIsLogged ==
    (Exited /\ exitCause # "killed") => lastLog \in ExitLogs[exitCause]

\* C18: in crash_periodic every cycle is write, sleep of 3 to 7 seconds, one
\* crash check.  The checks never run ahead of the writes nor fall more than the
\* current cycle behind; they are level whenever the duration is tested and at
\* both exits of the scenario; a check is evaluated after the sleep of its
\* cycle, and it either ends the process with code 1 or hands over to the
\* duration test, so that the exit with code 0 follows passed checks only.
C18_CrashCheckOncePerCycle ==
    /\ [](scenario = W_crash_periodic
            => /\ checks <= writes
               /\ writes <= checks + 1
               /\ pc = "c_test" => checks = writes
               /\ pc = "c_check" => writes = checks + 1
               /\ exitCause \in {"crash", "scenario"} => checks = writes
               /\ exitCause = "crash" => exitCode = 1
               /\ exitCause = "scenario" => exitCode = 0)
    /\ [][(scenario = W_crash_periodic /\ checks' # checks)
            => /\ checks' = checks + 1
               /\ pc = "c_check"
               /\ writes' = writes
               /\ now - lastWrite >= JitterMin
               /\ now - lastWrite <= JitterMax
               /\ \/ exitCause' = "crash"
                  \/ (pc' = "c_test" /\ Running')]_vars
    /\ [][(scenario = W_crash_periodic /\ exitCause # "scenario" /\ exitCause' = "scenario")
            => (pc = "c_test" /\ checks = writes)]_vars

\* crash_periodic ended with code 0 after two cycles whose checks both passed.
C18_Witness ==
    /\ scenario = W_crash_periodic
    /\ exitCause = "scenario"
    /\ exitCode = 0
    /\ writes = 2
    /\ checks = 2

\* A normal or crash_periodic run of duration 0 that receives no SIGTERM.
ZeroDurationRun ==
    /\ scenario \in {W_normal, W_crash_periodic}
    /\ duration = 0
    /\ NoSignal

\* C19 as stated: with duration 0, normal and crash_periodic write no heartbeat,
\* evaluate no crash check and exit with code 0 at once, and no heartbeat file is
\* present at HEARTBEAT_FILE when they have ended.
C19_ZeroDurationLeavesNoFile ==
    ZeroDurationRun
        => /\ writes = 0
           /\ checks = 0
           /\ Exited => /\ exitCode = 0
                        /\ exitTime = Epoch
                        /\ ~fs[HEARTBEAT_FILE].exists

\* C19 as amended: the same, except that the file at HEARTBEAT_FILE is absent at
\* the end only if none was found at start-up or its removal succeeded; an old
\* file whose removal failed is still there, untouched.  A removal that is
\* logged as done has removed the file, and the run changes no file afterwards.
C19_ZeroDurationWritesNothing ==
    /\ [](ZeroDurationRun
            => /\ writes = 0
               /\ checks = 0
               /\ ~f_open
               /\ fs[HEARTBEAT_FILE] \in {NoFile, fs0[HEARTBEAT_FILE]}
               /\ ~fs0[HEARTBEAT_FILE].exists => ~fs[HEARTBEAT_FILE].exists
               /\ Exited => /\ exitCode = 0
                            /\ exitCause = "scenario"
                            /\ exitTime = Epoch)
    /\ [][(Harness /\ lastLog' = "Cleaned up old heartbeat file")
            => ~fs'[HEARTBEAT_FILE].exists]_vars
    /\ [][ZeroDurationRun => fs' = fs]_vars

\* A normal run of duration 0 that found an old heartbeat file, removed it and
\* ended with none.
C19_Witness ==
    /\ scenario = W_normal
    /\ duration = 0
    /\ exitCause = "scenario"
    /\ fs0[HEARTBEAT_FILE].exists
    /\ ~fs[HEARTBEAT_FILE].exists

=============================================================================
